---------------------------- MODULE Spec2Model ----------------------------
(***************************************************************************)
(* A model of ccgen (src/ccgen.c): parse_input, doTheJob, str_write and    *)
(* main.  C strings are sequences of one-character strings; a null char*   *)
(* is the value NULL.  One run of the program is one behaviour: Init picks *)
(* the argument vector, the actions are the steps of main.                 *)
(***************************************************************************)
EXTENDS Integers, Sequences, FiniteSets, TLC

(* ------------------------------------------------------------------ *)
(* Program constants (src/ccgen.c:86-90) and libc exit codes.          *)
(* ------------------------------------------------------------------ *)
MAX_OPTIONS == 100

MAX_ARGS == 100

MAX_COMMAND_LEN == 1000

MAX_FILENAME_LEN == 50

MAX_OPTION_VALUES == 10

EXIT_SUCCESS == 0

EXIT_FAILURE == 1

(* ------------------------------------------------------------------ *)
(* Bounds of the model.                                                *)
(* ------------------------------------------------------------------ *)
(* The most -o occurrences of an argument vector of ExpandInputs. *)
MaxOpts == 2

(* The longest option_spec string of ParserInputs. *)
MaxSpecLen == 3

(* ------------------------------------------------------------------ *)
(* Strings.                                                            *)
(* ------------------------------------------------------------------ *)
(* A null char pointer.  Characters are one-character strings, so no C string equals it. *)
NULL == <<"NULL">>

Min(a, b) == IF a < b THEN a ELSE b

(* n copies of the character c. *)
Rep(c, n) == [i \in 1..n |-> c]

(* Every sequence over S of length at most n. *)
SeqsUpTo(S, n) == UNION {[1..k -> S] : k \in 0..n}

(* strlen of a non-null string. *)
strlen(s) == Len(s)

(* ------------------------------------------------------------------ *)
(* vsnprintf's formatting, as far as ccgen uses it: %s takes the next  *)
(* argument, %% is a percent sign, every other character is copied.    *)
(* A conversion with no argument left, or an unknown or incomplete     *)
(* one, is undefined: ok is FALSE.                                     *)
(* ------------------------------------------------------------------ *)
(* The index of the first character c of s, or Len(s) + 1. *)
IndexOf(s, c) ==
  LET P == {i \in 1..Len(s) : s[i] = c}
  IN  IF P = {} THEN Len(s) + 1 ELSE CHOOSE i \in P : \A j \in P : i <= j

(* The text before the first conversion is copied; the conversion is   *)
(* done; the rest is formatted with the arguments left.                *)
RECURSIVE Format(_, _)
Format(fmt, args) ==
  LET p    == IndexOf(fmt, "%")
      text == SubSeq(fmt, 1, p - 1)
      rest == SubSeq(fmt, p + 2, Len(fmt))
  IN  IF p > Len(fmt) THEN [ok |-> TRUE, out |-> fmt]
      ELSE IF p < Len(fmt) /\ fmt[p + 1] = "%"
        THEN LET r == Format(rest, args)
             IN  [ok |-> r.ok, out |-> text \o <<"%">> \o r.out]
      ELSE IF p < Len(fmt) /\ fmt[p + 1] = "s" /\ args # <<>> /\ Head(args) # NULL
        THEN LET r == Format(rest, Tail(args))
             IN  [ok |-> r.ok, out |-> text \o Head(args) \o r.out]
      ELSE [ok |-> FALSE, out |-> text]

(* The string vsnprintf(str + ind, n, ...) leaves in str: what was before  *)
(* ind, then at most n - 1 characters of the output, then the terminator.  *)
(* With n = 0 nothing is written, and a terminator before ind ends the     *)
(* string there.                                                           *)
Stored(str, ind, n, out) ==
  IF ind > Len(str) \/ n <= 0 THEN str
  ELSE SubSeq(str, 1, ind) \o SubSeq(out, 1, Min(Len(out), n - 1))

(* The test of str_write that ends the run (src/ccgen.c:420). *)
OverflowsOffByOne(ch_cnt, n) == ch_cnt > n

Overflows(ch_cnt, n) == ch_cnt >= n

(* str_write (src/ccgen.c:411-426) on the buffer contents str: the new     *)
(* contents, the new *ind, whether it returned (ok) and whether the        *)
(* format was defined.                                                     *)
str_write(str, ind, n, fmt, args) ==
  LET f      == Format(fmt, args)
      ch_cnt == Len(f.out)
  IN  [str     |-> Stored(str, ind, n, f.out),
       ind     |-> IF Overflows(ch_cnt, n) THEN ind ELSE ind + ch_cnt,
       ok      |-> ~Overflows(ch_cnt, n),
       defined |-> f.ok]

(* ------------------------------------------------------------------ *)
(* parse_input, case 'o' (src/ccgen.c:268-284).                        *)
(* ------------------------------------------------------------------ *)
(* getsubopt with an empty token table on a non-empty string: the value    *)
(* is the text before the first comma, and the rest starts after it.       *)
getsubopt(subopts) ==
  LET e == IndexOf(subopts, ",")
  IN  [value |-> SubSeq(subopts, 1, e - 1),
       rest  |-> SubSeq(subopts, e + 1, Len(subopts))]

(* A slot of the opt_val array before any store: static storage is zeroed. *)
ZeroValue == [fname |-> NULL, iname |-> NULL]

(* An element of passed_options before any store.  opt_val holds the       *)
(* slots written so far; oob says a store went past opt_val.               *)
ZeroOption == [opt_val |-> <<>>, val_cnt |-> 0, oob |-> FALSE]

(* The store of line 281, cur->opt_val[cur->val_cnt++].fname = value. *)
StoreFname(cur, value) ==
  IF cur.val_cnt >= MAX_OPTION_VALUES
    THEN [cur EXCEPT !.val_cnt = @ + 1, !.oob = TRUE]
    ELSE [cur EXCEPT !.opt_val = Append(@, [ZeroValue EXCEPT !.fname = value]),
                     !.val_cnt = @ + 1]

(* The store of line 279, cur->opt_val[cur->val_cnt-1].iname = value. *)
StoreIname(cur, value) ==
  [cur EXCEPT !.opt_val[cur.val_cnt].iname = value]

(* Which store the i-th field gets (src/ccgen.c:278). *)
IsInameField(i) == i % 2 = 1

(* ------------------------------------------------------------------ *)
(* The argument vector, as getopt presents it: the option occurrences  *)
(* in order, each with the character getopt returns and its optarg,    *)
(* then the remaining arguments.                                       *)
(* ------------------------------------------------------------------ *)
Occ(c, optarg) == [c |-> c, optarg |-> optarg]

(* The argv entries one occurrence takes. *)
Tokens(occ) == IF occ.optarg = NULL THEN 1 ELSE 2

(* The argv entries of all the occurrences: one each, and one more for *)
(* each that has an optarg.                                           *)
TokenCount(opts) == Len(opts) + Len(SelectSeq(opts, LAMBDA occ : Tokens(occ) = 2))

(* argc of an argument vector: the program name, the options, the arguments. *)
Argc(a) == 1 + TokenCount(a.opts) + Len(a.args)

VARIABLES
  argv,            (* the argument vector of the run                        *)
  pc,              (* where the program is                                  *)
  next_opt,        (* the occurrence getopt returns next                    *)
  outfile_base, backend, logfile, extension,
  passed_options, option_count,
  arguments, arg_count,
  subopts, parse_i,(* parse_input's subopts and i                           *)
  cur_set,         (* the current selection, one value index per option     *)
  stack,           (* the activations of doTheJob: its opt and its j        *)
  cmd_buf, file_buf,
  cmd_ind, file_ind, job_i, (* the leaf's cmd_ind, file_ind and i           *)
  stdout,          (* the command of every "Executing... " line, in order   *)
  invoked,         (* every call of call_backend: its command, and file_buf *)
                   (* and cur_set as they were then                         *)
  backend_failures,(* how many calls of system returned a nonzero status    *)
  exit_status      (* <<status>> once the process has ended, <<>> before   *)

config == <<outfile_base, backend, logfile, extension>>

tables == <<passed_options, option_count, arguments, arg_count>>

parse  == <<subopts, parse_i>>

walk   == <<cur_set, stack>>

render == <<cmd_buf, file_buf, cmd_ind, file_ind, job_i>>

io     == <<stdout, invoked, backend_failures>>

vars == <<argv, pc, next_opt, config, tables, parse, walk, render, io, exit_status>>

(* ------------------------------------------------------------------ *)
(* The argument vectors of the model.                                  *)
(* ------------------------------------------------------------------ *)
(* Every option_spec over a name character and the comma. *)
SpecStrings == SeqsUpTo({"a", ","}, MaxSpecLen)

OptionList(specs) == [i \in 1..Len(specs) |-> Occ("o", specs[i])]

(* One -o occurrence of any spec, with and without a base name. *)
ParserInputs ==
  {[opts |-> pre \o OptionList(<<spec>>), args |-> << <<"s">> >>] :
     spec \in SpecStrings,
     pre \in {<<>>, <<Occ("b", <<"f">>)>>}}

(* Specs of no value, of one, of two and of three values. *)
ExpandSpecs ==
  {<<>>, <<"a">>, <<"b", ",", "x", ",", "c">>,
   <<"d", ",", ",", "e", ",", ",", "f">>}

(* Up to MaxOpts -o occurrences of those, with and without a base name. *)
ExpandInputs ==
  {[opts |-> pre \o OptionList(specs), args |-> << <<"s">> >>] :
     specs \in SeqsUpTo(ExpandSpecs, MaxOpts),
     pre \in {<<>>, <<Occ("b", <<"f">>)>>}}

(* -e o -b source -o -c -o -g,debug,,nodebug -o -m32,32,-m64,64 in short *)
ExampleSpecs == << <<"c">>, <<"g", ",", "d", ",", ",", "n">>,
                   <<"m", ",", "3", ",", "w", ",", "6">> >>

(* Every choice of backend, base name, extension, options and arguments    *)
(* from a few of each: absent, empty, plain, with a percent sign.          *)
BuilderInputs ==
  {[opts |-> x \o b \o e \o OptionList(specs), args |-> args] :
     x \in {<<>>, <<Occ("x", <<>>)>>, <<Occ("x", <<"x">>)>>,
            <<Occ("x", <<"x", "%", "%">>)>>, <<Occ("x", <<"%", "s">>)>>},
     b \in {<<>>, <<Occ("b", <<>>)>>, <<Occ("b", <<"f">>)>>,
            <<Occ("b", <<"f", "%", "%">>)>>},
     e \in {<<>>, <<Occ("e", <<>>)>>, <<Occ("e", <<"o">>)>>},
     specs \in {<<>>, SubSeq(ExampleSpecs, 2, 2), ExampleSpecs},
     args \in {<<>>, << <<"s">> >>, << <<>> >>, << <<"s">>, <<>>, <<"t">> >>}}

(* A command of exactly k characters: cc, a space, one long argument.  The *)
(* option's second value adds two characters to the first's.               *)
LongCommandInputs ==
  {[opts |-> o, args |-> << Rep("a", k - 3) >>] :
     k \in (MAX_COMMAND_LEN - 4)..(MAX_COMMAND_LEN + 1),
     o \in {<<>>, <<Occ("o", <<",", ",", "a">>)>>}}

(* A file name of k characters and more: the base name has k, the option's *)
(* second value adds two, the extension two.                               *)
LongFilenameInputs ==
  {[opts |-> <<Occ("b", Rep("f", k))>> \o e \o o, args |-> << <<"s">> >>] :
     k \in (MAX_FILENAME_LEN - 5)..MAX_FILENAME_LEN,
     e \in {<<>>, <<Occ("e", <<"o">>)>>},
     o \in {<<>>, <<Occ("o", <<",", ",", "a", ",", "d">>)>>}}

(* n fields, each the name a. *)
FieldsSpec(n) == [i \in 1..(2 * n - 1) |-> IF i % 2 = 1 THEN "a" ELSE ","]

(* The tables filled to their capacity and one past it. *)
CapacityInputs ==
     {[opts |-> [i \in 1..n |-> Occ("o", <<"a">>)], args |-> <<>>] :
        n \in {MAX_OPTIONS, MAX_OPTIONS + 1}}
  \cup {[opts |-> [i \in 1..(MAX_OPTIONS + 1) |->
                     Occ("o", IF i <= MAX_OPTIONS THEN <<"a">> ELSE <<>>)],
         args |-> <<>>]}
  \cup {[opts |-> <<Occ("o", FieldsSpec(n))>>, args |-> <<>>] :
        n \in {2 * MAX_OPTION_VALUES - 1, 2 * MAX_OPTION_VALUES,
               2 * MAX_OPTION_VALUES + 1}}
  \cup {[opts |-> <<>>, args |-> [i \in 1..n |-> <<>>]] :
        n \in {MAX_ARGS, MAX_ARGS + 1}}

(* No argument at all, and the occurrences that end the run or only set a  *)
(* variable.                                                               *)
PlumbingInputs ==
  {[opts |-> o, args |-> args] :
     o \in {<<>>, <<Occ("v", NULL)>>, <<Occ("h", NULL)>>, <<Occ("?", NULL)>>,
            <<Occ(":", NULL)>>, <<Occ("l", <<"l">>)>>,
            <<Occ("o", <<"a">>), Occ("?", NULL)>>},
     args \in {<<>>, << <<"-", "o">> >>}}

Inputs == ParserInputs \cup ExpandInputs \cup BuilderInputs \cup LongCommandInputs
            \cup LongFilenameInputs \cup CapacityInputs \cup PlumbingInputs

(* The state at the start of main: the initializers of lines 197-209. *)
Init ==
  /\ argv \in Inputs
  /\ pc = "main"
  /\ next_opt = 1
  /\ outfile_base = NULL
  /\ backend = <<"c", "c">>
  /\ logfile = NULL
  /\ extension = NULL
  /\ passed_options = <<>>
  /\ option_count = 0
  /\ arguments = <<>>
  /\ arg_count = 0
  /\ subopts = NULL
  /\ parse_i = 0
  /\ cur_set = [i \in 0..(MAX_OPTIONS - 1) |-> 0]
  /\ stack = <<>>
  /\ cmd_buf = <<>>
  /\ file_buf = <<>>
  /\ cmd_ind = 0
  /\ file_ind = 0
  /\ job_i = 0
  /\ stdout = <<>>
  /\ invoked = <<>>
  /\ backend_failures = 0
  /\ exit_status = <<>>

(* exit(status), reached at the place the new pc names: "usage" (line 219), *)
(* "version" (250), "help" (254), "error_exit" (395) or "done" (231).       *)
Exit(where, status) == pc' = where /\ exit_status' = <<status>>

(* The values of pc at which the process has ended in a defined way. *)
Terminal == {"usage", "version", "help", "error_exit", "done"}

(* The program did something undefined: any outcome may follow. *)
Undefined == pc' = "undefined" /\ exit_status' \in {<<EXIT_SUCCESS>>, <<EXIT_FAILURE>>}

(* The program goes on at the place where. *)
Goto(where) == pc' = where /\ UNCHANGED exit_status

(* main, lines 216-221 *)
MainArgc ==
  /\ pc = "main"
  /\ IF Argc(argv) < 2 THEN Exit("usage", EXIT_FAILURE) ELSE Goto("getopt")
  /\ UNCHANGED <<argv, next_opt, config, tables, parse, walk, render, io>>

(* getopt returned the character c with its optarg *)
Getopt(c) ==
  /\ pc = "getopt"
  /\ next_opt <= Len(argv.opts)
  /\ argv.opts[next_opt].c = c
  /\ next_opt' = next_opt + 1

optarg == argv.opts[next_opt].optarg

(* case 'v' and case 'h', lines 248-255 *)
CaseVersion ==
  /\ Getopt("v")
  /\ Exit("version", EXIT_SUCCESS)
  /\ UNCHANGED <<argv, config, tables, parse, walk, render, io>>

CaseHelp ==
  /\ Getopt("h")
  /\ Exit("help", EXIT_SUCCESS)
  /\ UNCHANGED <<argv, config, tables, parse, walk, render, io>>

(* case 'b', 'x', 'l', 'e', lines 256-267 *)
CaseB ==
  /\ Getopt("b")
  /\ outfile_base' = optarg
  /\ UNCHANGED <<argv, pc, backend, logfile, extension, tables, parse, walk,
                 render, io, exit_status>>

CaseX ==
  /\ Getopt("x")
  /\ backend' = optarg
  /\ UNCHANGED <<argv, pc, outfile_base, logfile, extension, tables, parse, walk,
                 render, io, exit_status>>

CaseL ==
  /\ Getopt("l")
  /\ logfile' = optarg
  /\ UNCHANGED <<argv, pc, outfile_base, backend, extension, tables, parse, walk,
                 render, io, exit_status>>

CaseE ==
  /\ Getopt("e")
  /\ extension' = optarg
  /\ UNCHANGED <<argv, pc, outfile_base, backend, logfile, tables, parse, walk,
                 render, io, exit_status>>

(* case 'o', lines 268-274: cur = &passed_options[option_count++].  The   *)
(* model keeps the elements cur has pointed to; past the array there is   *)
(* none.                                                                  *)
CaseO ==
  /\ Getopt("o")
  /\ subopts' = optarg
  /\ parse_i' = 0
  /\ option_count' = option_count + 1
  /\ passed_options' = IF option_count < MAX_OPTIONS
                         THEN Append(passed_options, ZeroOption)
                         ELSE passed_options
  /\ Goto("subopts")
  /\ UNCHANGED <<argv, config, arguments, arg_count, walk, render, io>>

(* one iteration of the loop of lines 274-282; a store through cur past   *)
(* passed_options, or past opt_val, is undefined                          *)
SubOptStore ==
  /\ pc = "subopts"
  /\ subopts # <<>>
  /\ LET r == getsubopt(subopts)
     IN  /\ subopts' = r.rest
         /\ parse_i' = parse_i + 1
         /\ IF option_count > MAX_OPTIONS
              THEN Undefined /\ UNCHANGED passed_options
              ELSE LET cur == passed_options[option_count]
                       new == IF IsInameField(parse_i) THEN StoreIname(cur, r.value)
                                                       ELSE StoreFname(cur, r.value)
                   IN  /\ passed_options' = [passed_options EXCEPT ![option_count] = new]
                       /\ IF new.oob THEN Undefined ELSE Goto("subopts")
  /\ UNCHANGED <<argv, next_opt, config, option_count, arguments, arg_count,
                 walk, render, io>>

(* the end of the loop and the break, lines 274 and 284 *)
SubOptEnd ==
  /\ pc = "subopts"
  /\ subopts = <<>>
  /\ Goto("getopt")
  /\ UNCHANGED <<argv, next_opt, config, tables, parse, walk, render, io>>

(* case '?' and case ':', lines 285-290 *)
CaseUnrecognized ==
  /\ Getopt("?")
  /\ Exit("error_exit", EXIT_FAILURE)
  /\ UNCHANGED <<argv, config, tables, parse, walk, render, io>>

CaseMissingOperand ==
  /\ Getopt(":")
  /\ Exit("error_exit", EXIT_FAILURE)
  /\ UNCHANGED <<argv, config, tables, parse, walk, render, io>>

(* getopt returned -1, lines 296-299: the memcpy into arguments, which    *)
(* is undefined past the array                                            *)
CopyArguments ==
  /\ pc = "getopt"
  /\ next_opt > Len(argv.opts)
  /\ arg_count' = Len(argv.args)
  /\ arguments' = SubSeq(argv.args, 1, Min(Len(argv.args), MAX_ARGS))
  /\ IF Len(argv.args) > MAX_ARGS THEN Undefined ELSE Goto("parsed")
  /\ UNCHANGED <<argv, next_opt, config, passed_options, option_count, parse,
                 walk, render, io>>

(* main, lines 223-229: the redirection and the call doTheJob(0) *)
MainCallJob ==
  /\ pc = "parsed"
  /\ stack' = <<[opt |-> 0, j |-> 0]>>
  /\ Goto("job")
  /\ UNCHANGED <<argv, next_opt, config, tables, parse, cur_set, render, io>>

(* ------------------------------------------------------------------ *)
(* doTheJob (src/ccgen.c:312-374).                                     *)
(* ------------------------------------------------------------------ *)
top == stack[Len(stack)]

(* The return of the innermost activation: its caller goes on with ++j. *)
Return(s) ==
  IF Len(s) = 1 THEN <<>>
  ELSE [SubSeq(s, 1, Len(s) - 1) EXCEPT ![Len(s) - 1].j = @ + 1]

(* Both buffers and both indexes, whether every str_write so far has   *)
(* returned, and whether every format was defined.                     *)
Buffers(ci, fi) ==
  [cmd |-> cmd_buf, cmd_ind |-> ci, file |-> file_buf, file_ind |-> fi,
   ok |-> TRUE, defined |-> TRUE]

(* str_write into cmd_buf, unless an earlier str_write ended the run *)
WriteCmd(R, fmt, args) ==
  IF ~R.ok \/ ~R.defined THEN R
  ELSE LET w == str_write(R.cmd, R.cmd_ind, MAX_COMMAND_LEN - R.cmd_ind, fmt, args)
       IN  [R EXCEPT !.cmd = w.str, !.cmd_ind = w.ind, !.ok = w.ok, !.defined = w.defined]

(* str_write into file_buf, likewise *)
WriteFile(R, fmt, args) ==
  IF ~R.ok \/ ~R.defined THEN R
  ELSE LET w == str_write(R.file, R.file_ind, MAX_FILENAME_LEN - R.file_ind, fmt, args)
       IN  [R EXCEPT !.file = w.str, !.file_ind = w.ind, !.ok = w.ok, !.defined = w.defined]

(* The state after the writes R: error_exit if one did not return. *)
Commit(R, where) ==
  /\ cmd_buf' = R.cmd
  /\ cmd_ind' = R.cmd_ind
  /\ file_buf' = R.file
  /\ file_ind' = R.file_ind
  /\ IF ~R.defined THEN Undefined
     ELSE IF ~R.ok THEN Exit("error_exit", EXIT_FAILURE)
     ELSE Goto(where)

(* Whether a name is written: non-null and non-empty (lines 333, 338). *)
Present(name) == name # NULL /\ strlen(name) # 0

(* Whether there is an output file name (lines 324, 338, 345). *)
HasOutputOnExtension == extension # NULL

HasOutput == outfile_base # NULL

(* the leaf, lines 314-328: the backend and the base name *)
LeafHeads ==
  /\ pc = "job" /\ stack # <<>>
  /\ top.opt = option_count
  /\ LET R1 == WriteCmd(Buffers(0, 0), backend, <<>>)
         R2 == IF HasOutput THEN WriteFile(R1, outfile_base, <<>>) ELSE R1
     IN  Commit(R2, "leaf_options")
  /\ job_i' = 0
  /\ UNCHANGED <<argv, next_opt, config, tables, parse, walk, io>>

(* one iteration of the loop of lines 330-343 *)
LeafOption ==
  /\ pc = "leaf_options"
  /\ job_i < option_count
  /\ LET cur_val == passed_options[job_i + 1].opt_val[cur_set[job_i] + 1]
         R  == Buffers(cmd_ind, file_ind)
         R1 == IF Present(cur_val.fname)
                 THEN WriteCmd(R, <<" ", "%", "s">>, <<cur_val.fname>>) ELSE R
         R2 == IF HasOutput /\ Present(cur_val.iname)
                 THEN WriteFile(R1, <<"_", "%", "s">>, <<cur_val.iname>>) ELSE R1
     IN  Commit(R2, "leaf_options")
  /\ job_i' = job_i + 1
  /\ UNCHANGED <<argv, next_opt, config, tables, parse, walk, io>>

(* the end of that loop and lines 345-356: the extension and -o *)
LeafOutput ==
  /\ pc = "leaf_options"
  /\ job_i >= option_count
  /\ LET R  == Buffers(cmd_ind, file_ind)
         R1 == IF HasOutput /\ extension # NULL
                 THEN WriteFile(R, <<".", "%", "s">>, <<extension>>) ELSE R
         R2 == IF HasOutput
                 THEN WriteCmd(R1, <<" ", "-", "o", " ", "%", "s">>, <<R1.file>>) ELSE R1
     IN  Commit(R2, "leaf_arguments")
  /\ job_i' = 0
  /\ UNCHANGED <<argv, next_opt, config, tables, parse, walk, io>>

(* one iteration of the loop of lines 358-362 *)
LeafArgument ==
  /\ pc = "leaf_arguments"
  /\ job_i < arg_count
  /\ Commit(WriteCmd(Buffers(cmd_ind, file_ind), <<" ", "%", "s">>,
                     <<arguments[job_i + 1]>>),
            "leaf_arguments")
  /\ job_i' = job_i + 1
  /\ UNCHANGED <<argv, next_opt, config, tables, parse, walk, io>>

(* the end of that loop and the "Executing... " line, line 363 *)
LeafPrint ==
  /\ pc = "leaf_arguments"
  /\ job_i >= arg_count
  /\ stdout' = Append(stdout, cmd_buf)
  /\ Goto("call")
  /\ UNCHANGED <<argv, next_opt, config, tables, parse, walk, render, invoked,
                 backend_failures>>

(* The statuses system may return: success, a failing exit, no shell. *)
BackendStatuses == {0, 256, -1}

(* Whether doTheJob ends the run on a status of call_backend: line 365 *)
(* drops the status.                                                  *)
StopsOnFailure(status) == status # 0

StopsOn(status) == FALSE

(* call_backend and the return, lines 365-366 *)
CallBackend ==
  /\ pc = "call"
  /\ \E status \in BackendStatuses :
       /\ invoked' = Append(invoked,
                            [command |-> cmd_buf, file |-> file_buf,
                             set |-> [i \in 1..option_count |-> cur_set[i - 1]]])
       /\ backend_failures' = backend_failures + (IF status # 0 THEN 1 ELSE 0)
       /\ IF StopsOn(status)
            THEN Exit("error_exit", EXIT_FAILURE) /\ UNCHANGED stack
            ELSE Goto("job") /\ stack' = Return(stack)
  /\ UNCHANGED <<argv, next_opt, config, tables, parse, cur_set, render, stdout>>

(* The bound of the loop of line 369. *)
LoopBoundOffByOne(opt) == passed_options[opt + 1].val_cnt - 1

LoopBound(opt) == passed_options[opt + 1].val_cnt

(* The index line 371 stores in cur_set[opt] at iteration j. *)
SelectReversed(opt, j) == LoopBound(opt) - 1 - j

Select(opt, j) == j

(* The callee's opt, line 372. *)
Callee(opt) == opt + 1

(* one iteration of the loop, lines 369-372; passed_options[opt] past the *)
(* array is an undefined read                                             *)
JobLoop ==
  /\ pc = "job" /\ stack # <<>>
  /\ top.opt # option_count
  /\ IF top.opt >= MAX_OPTIONS
       THEN Undefined /\ UNCHANGED walk
       ELSE /\ top.j < LoopBound(top.opt)
            /\ cur_set' = [cur_set EXCEPT ![top.opt] = Select(top.opt, top.j)]
            /\ stack' = Append(stack, [opt |-> Callee(top.opt), j |-> 0])
            /\ Goto("job")
  /\ UNCHANGED <<argv, next_opt, config, tables, parse, render, io>>

(* the end of the loop and the return, lines 369 and 374 *)
JobReturn ==
  /\ pc = "job" /\ stack # <<>>
  /\ top.opt # option_count
  /\ top.opt < MAX_OPTIONS
  /\ top.j >= LoopBound(top.opt)
  /\ stack' = Return(stack)
  /\ Goto("job")
  /\ UNCHANGED <<argv, next_opt, config, tables, parse, cur_set, render, io>>

(* main, line 231 *)
MainExit ==
  /\ pc = "job" /\ stack = <<>>
  /\ Exit("done", EXIT_SUCCESS)
  /\ UNCHANGED <<argv, next_opt, config, tables, parse, walk, render, io>>

Next ==
  \/ MainArgc
  \/ CaseVersion
  \/ CaseHelp
  \/ CaseB
  \/ CaseX
  \/ CaseL
  \/ CaseE
  \/ CaseO
  \/ SubOptStore
  \/ SubOptEnd
  \/ CaseUnrecognized
  \/ CaseMissingOperand
  \/ CopyArguments
  \/ MainCallJob
  \/ LeafHeads
  \/ LeafOption
  \/ LeafOutput
  \/ LeafArgument
  \/ LeafPrint
  \/ CallBackend
  \/ JobLoop
  \/ JobReturn
  \/ MainExit

(* ================================================================== *)
(* What the run should do, stated from its input: the selection tuples *)
(* and the text of each.                                               *)
(* ================================================================== *)
(* The value counts c1..cn of the stored options. *)
Count(i) == passed_options[i].val_cnt

(* The greatest of them. *)
MaxCount ==
  IF passed_options = <<>> THEN 0
  ELSE CHOOSE m \in {Count(i) : i \in 1..Len(passed_options)} :
         \A i \in 1..Len(passed_options) : Count(i) <= m

(* The selection tuples: one index below its count for every option. *)
AllTuples ==
  {t \in [1..Len(passed_options) -> 0..(MaxCount - 1)] :
     \A i \in 1..Len(passed_options) : t[i] < Count(i)}

(* c_lo * ... * c_hi, by halves *)
RECURSIVE Product(_, _)
Product(lo, hi) ==
  IF lo > hi THEN 1
  ELSE IF lo = hi THEN Count(lo)
  ELSE Product(lo, (lo + hi) \div 2) * Product(((lo + hi) \div 2) + 1, hi)

(* s before t in lexicographic order *)
LexLess(s, t) ==
  \E i \in 1..Len(s) : s[i] < t[i] /\ \A j \in 1..(i - 1) : s[j] = t[j]

(* The k-th selection tuple in lexicographic order, from 1: the digits *)
(* of k - 1 in the mixed radix c1..cn.                                 *)
NthTuple(k) ==
  [i \in 1..option_count |->
     ((k - 1) \div Product(i + 1, option_count)) % Count(i)]

(* The value a tuple selects for option i. *)
Selected(t, i) == passed_options[i].opt_val[t[i] + 1]

(* The text of a name: nothing for a null one. *)
Text(name) == IF name = NULL THEN <<>> ELSE name

(* The concatenation of f[lo], ..., f[hi], by halves. *)
RECURSIVE Concat(_, _, _)
Concat(f, lo, hi) ==
  IF lo > hi THEN <<>>
  ELSE IF lo = hi THEN f[lo]
  ELSE Concat(f, lo, (lo + hi) \div 2) \o Concat(f, ((lo + hi) \div 2) + 1, hi)

(* A piece after a separator, or nothing for an empty piece. *)
Sep(sep, piece) == IF piece = <<>> THEN <<>> ELSE sep \o piece

(* What the backend name and the base name are written as: format strings. *)
AsFormat(fmt) == Format(fmt, <<>>).out

(* The formal names tuple t selects, each after a space. *)
FormalNames(t) ==
  Concat([i \in 1..Len(t) |-> Sep(<<" ">>, Text(Selected(t, i).fname))], 1, Len(t))

(* The informal names tuple t selects, each after an underscore. *)
InformalNames(t) ==
  Concat([i \in 1..Len(t) |-> Sep(<<"_">>, Text(Selected(t, i).iname))], 1, Len(t))

(* The arguments, each after a space. *)
Arguments == Concat([i \in 1..arg_count |-> <<" ">> \o arguments[i]], 1, arg_count)

(* The file name the code renders for tuple t, with no limit of length. *)
RefFile(t) ==
  AsFormat(outfile_base) \o InformalNames(t)
    \o (IF extension # NULL THEN <<".">> \o extension ELSE <<>>)

(* The command the code renders for tuple t, with no limit of length. *)
RefCommand(t) ==
  AsFormat(backend) \o FormalNames(t)
    \o (IF outfile_base # NULL THEN <<" ", "-", "o", " ">> \o RefFile(t) ELSE <<>>)
    \o Arguments

(* Both renderings of tuple t fit their buffers, terminator included. *)
Fits(t) ==
  /\ Len(RefCommand(t)) + 1 <= MAX_COMMAND_LEN
  /\ outfile_base # NULL => Len(RefFile(t)) + 1 <= MAX_FILENAME_LEN

(* The tuple cur_set holds. *)
CurrentTuple == [i \in 1..option_count |-> cur_set[i - 1]]

(* The run ended inside doTheJob, in a str_write. *)
RenderFailed == pc = "error_exit" /\ stack # <<>>

(* ------------------------------------------------------------------ *)
(* C1. A run that finishes (line 231) has invoked the backend exactly  *)
(* c1 * ... * cn times, once for every selection tuple and for no      *)
(* tuple twice; with no option that is once.                           *)
(* ------------------------------------------------------------------ *)
C1_CartesianComplete ==
  pc = "done" =>
    /\ Len(invoked) = Product(1, option_count)
    /\ {invoked[k].set : k \in 1..Len(invoked)} = AllTuples
    /\ \A k, l \in 1..Len(invoked) : invoked[k].set = invoked[l].set => k = l
    /\ option_count = 0 => Len(invoked) = 1

C1_Witness ==
  /\ pc = "done"
  /\ option_count = 2
  /\ Count(1) = 2 /\ Count(2) = 2
  /\ Len(invoked) = 4

(* ------------------------------------------------------------------ *)
(* C2. The invocations are issued in lexicographic order of their      *)
(* tuples, option 0 slowest, and every command was logged before it    *)
(* was invoked, in the same order.                                     *)
(* ------------------------------------------------------------------ *)
C2_LexicographicOrder ==
  /\ \A k, l \in 1..Len(invoked) : k < l => LexLess(invoked[k].set, invoked[l].set)
  /\ Len(stdout) >= Len(invoked)
  /\ \A k \in 1..Len(invoked) : stdout[k] = invoked[k].command
  /\ \A k \in 1..Len(invoked) : invoked[k].set = NthTuple(k)

C2_Witness ==
  /\ pc = "done"
  /\ Len(invoked) = 4
  /\ invoked[2].set = <<0, 1>>
  /\ invoked[3].set = <<1, 0>>

(* ------------------------------------------------------------------ *)
(* C5. With no base name no command has the output flag or a file      *)
(* name: it is the backend, the non-empty formal names and the         *)
(* arguments, whatever the extension and the informal names are, and   *)
(* the file name buffer is never written.                              *)
(* ------------------------------------------------------------------ *)
PlainCommand(t) == AsFormat(backend) \o FormalNames(t) \o Arguments

C5_NoBaseNoOutputFlag ==
  outfile_base = NULL =>
    /\ \A k \in 1..Len(invoked) : invoked[k].command = PlainCommand(invoked[k].set)
    /\ \A k \in 1..Len(stdout) : stdout[k] = PlainCommand(NthTuple(k))
    /\ file_buf = <<>>

C5_Witness ==
  /\ pc = "done"
  /\ outfile_base = NULL
  /\ extension = <<"o">>
  /\ Len(invoked) = 4
  /\ \E i \in 1..option_count : \E v \in 1..Count(i) :
       Present(passed_options[i].opt_val[v].iname)

(* ------------------------------------------------------------------ *)
(* C8. No write goes past either buffer; a command is passed to the    *)
(* backend only whole, with its whole file name; a run that ends in a  *)
(* str_write ends with EXIT_FAILURE at the first combination, in       *)
(* order, that does not fit, having invoked only the ones before it;   *)
(* and a run that finishes had no combination that does not fit.       *)
(* ------------------------------------------------------------------ *)
C8_OverflowEndsRun ==
  /\ Len(cmd_buf) + 1 <= MAX_COMMAND_LEN
  /\ Len(file_buf) + 1 <= MAX_FILENAME_LEN
  /\ \A k \in 1..Len(invoked) :
       /\ invoked[k].command = RefCommand(invoked[k].set)
       /\ outfile_base # NULL => invoked[k].file = RefFile(invoked[k].set)
  /\ \A k \in 1..Len(stdout) : stdout[k] = RefCommand(NthTuple(k))
  /\ RenderFailed =>
       /\ exit_status = <<EXIT_FAILURE>>
       /\ ~Fits(CurrentTuple)
       /\ Len(stdout) = Len(invoked)
       /\ \A k \in 1..Len(invoked) :
            Fits(invoked[k].set) /\ LexLess(invoked[k].set, CurrentTuple)
  /\ pc = "done" => \A t \in AllTuples : Fits(t)

C8_Witness ==
  /\ RenderFailed
  /\ Len(invoked) = 1
  /\ Len(RefCommand(CurrentTuple)) = MAX_COMMAND_LEN
  /\ Len(invoked[1].command) = MAX_COMMAND_LEN - 2

(* ------------------------------------------------------------------ *)
(* C9. Whatever statuses the backend returns, the run issues the       *)
(* commands of all the combinations, in order, and exits with status   *)
(* 0: it ends inside doTheJob only at a rendering that does not fit.   *)
(* ------------------------------------------------------------------ *)
C9_StatusIgnored ==
  /\ pc = "done" =>
       /\ exit_status = <<EXIT_SUCCESS>>
       /\ [k \in 1..Len(invoked) |-> invoked[k].command]
            = [k \in 1..Product(1, option_count) |-> RefCommand(NthTuple(k))]
  /\ RenderFailed => ~Fits(CurrentTuple) /\ pc # "call"
  /\ backend_failures <= Len(invoked)

C9_Witness ==
  /\ pc = "done"
  /\ exit_status = <<EXIT_SUCCESS>>
  /\ Len(invoked) = 4
  /\ backend_failures = 4

(* ------------------------------------------------------------------ *)
(* C3 as claimed.  Every command is the backend name, the selected     *)
(* formal names, -o and the file name when there is a base name, and   *)
(* the arguments, the empty pieces left out and one space between the  *)
(* others.                                                             *)
(* ------------------------------------------------------------------ *)
(* The pieces joined by single spaces, the empty ones skipped. *)
JoinNonEmpty(pieces) ==
  LET ps == SelectSeq(pieces, LAMBDA x : x # <<>>)
  IN  Concat([k \in 1..Len(ps) |-> IF k = 1 THEN ps[k] ELSE <<" ">> \o ps[k]],
             1, Len(ps))

ClaimedPieces(t, file) ==
  <<backend>>
    \o [i \in 1..Len(t) |-> Text(Selected(t, i).fname)]
    \o (IF outfile_base # NULL THEN << <<"-", "o">>, file >> ELSE <<>>)
    \o arguments

C3_CommandAsClaimed ==
  \A k \in 1..Len(invoked) :
    invoked[k].command = JoinNonEmpty(ClaimedPieces(invoked[k].set, invoked[k].file))

(* ------------------------------------------------------------------ *)
(* C4 as claimed.  With a base name, the file name of every            *)
(* combination is the base name, then _ and the informal name of each  *)
(* selected value that has one, then . and the extension if there is   *)
(* one.                                                                *)
(* ------------------------------------------------------------------ *)
ClaimedFile(t) ==
  outfile_base \o InformalNames(t)
    \o (IF extension # NULL THEN <<".">> \o extension ELSE <<>>)

C4_FilenameAsClaimed ==
  outfile_base # NULL =>
    \A k \in 1..Len(invoked) : invoked[k].file = ClaimedFile(invoked[k].set)

(* ------------------------------------------------------------------ *)
(* C6 as claimed.  A non-empty option_spec is split at every comma,    *)
(* an empty last field being a field; field 2k is the formal name of   *)
(* value k and field 2k+1, if there is one, its informal name, else    *)
(* that is empty; there are ceil(fields / 2) values.                   *)
(* ------------------------------------------------------------------ *)
(* The places of the commas of s, and the place of the k-th: 0 for    *)
(* k = 0 and past the end for one more than there are.               *)
Commas(s) == {p \in 1..Len(s) : s[p] = ","}

CommaPlace(s, k) ==
  IF k = 0 THEN 0
  ELSE IF k > Cardinality(Commas(s)) THEN Len(s) + 1
  ELSE CHOOSE p \in Commas(s) : Cardinality({q \in Commas(s) : q <= p}) = k

(* The fields of s, split at every comma. *)
Fields(s) ==
  [k \in 1..(Cardinality(Commas(s)) + 1) |->
     SubSeq(s, CommaPlace(s, k - 1) + 1, CommaPlace(s, k) - 1)]

ClaimedValues(s) ==
  LET f == Fields(s)
  IN  [k \in 1..((Len(f) + 1) \div 2) |->
         [fname |-> f[2 * k - 1],
          iname |-> IF 2 * k <= Len(f) THEN f[2 * k] ELSE <<>>]]

(* The values stored for an option, a null name read as the empty one. *)
StoredValues(o) ==
  [k \in 1..Len(o.opt_val) |->
     [fname |-> Text(o.opt_val[k].fname), iname |-> Text(o.opt_val[k].iname)]]

(* The i-th -o occurrence of the argument vector. *)
OptionArgs == SelectSeq(argv.opts, LAMBDA occ : occ.c = "o")

(* The i-th option has been parsed to its end. *)
Parsed(i) == i < option_count \/ pc \notin {"subopts", "undefined"}

C6_ParseAsClaimed ==
  \A i \in 1..Len(passed_options) :
    (Parsed(i) /\ OptionArgs[i].optarg # <<>>) =>
      /\ passed_options[i].val_cnt = Len(ClaimedValues(OptionArgs[i].optarg))
      /\ StoredValues(passed_options[i]) = ClaimedValues(OptionArgs[i].optarg)

(* ------------------------------------------------------------------ *)
(* C7 as claimed.  A run given an -o occurrence with an empty          *)
(* option_spec ends with a nonzero status and never invokes the        *)
(* backend.                                                            *)
(* ------------------------------------------------------------------ *)
HasEmptySpec == \E i \in 1..Len(argv.opts) : argv.opts[i] = Occ("o", <<>>)

C7_EmptySpecRejected ==
  (pc \in Terminal /\ HasEmptySpec) =>
    /\ exit_status # <<EXIT_SUCCESS>>
    /\ invoked = <<>>

(* ------------------------------------------------------------------ *)
(* C10 as claimed.  Parsing stores at most MAX_OPTIONS options, at     *)
(* most MAX_OPTION_VALUES values in each and at most MAX_ARGS          *)
(* arguments: no store is past the end of its array.                   *)
(* ------------------------------------------------------------------ *)
C10_StoresWithinCapacity ==
  /\ option_count <= MAX_OPTIONS
  /\ \A i \in 1..Len(passed_options) :
       passed_options[i].val_cnt <= MAX_OPTION_VALUES /\ ~passed_options[i].oob
  /\ arg_count <= MAX_ARGS

Spec == Init /\ [][Next]_vars

=============================================================================
